---------------------------- MODULE Spec2Model ----------------------------
(***************************************************************************)
(* Model of the Hurriyet packet analyzer front end (src/App.tsx, kept as   *)
(* src/unnamed/part_000) together with the capture back end it talks to.   *)
(*                                                                         *)
(* The front end is a React component: every event-listener callback,      *)
(* every onChange/onClick handler and every continuation after an `await`  *)
(* runs to completion on the single JavaScript thread, so each of them is  *)
(* one atomic action.  `await invoke(...)` splits startCapture and         *)
(* stopCapture into the step that issues the call and the step that runs   *)
(* when the promise settles.                                               *)
(*                                                                         *)
(* The back end (the Tauri commands list_interfaces, start_capture,        *)
(* stop_capture and the emitters of packet-captured / capture-status) is   *)
(* not among the source files; it is modelled from sections 4.1, 5, 6 and  *)
(* 7 of the specification.  Events of one kind are delivered in emission   *)
(* order (one FIFO queue per kind); nothing orders an event against an     *)
(* event of the other kind or against the settling of a command promise.   *)
(*                                                                         *)
(* Strings are sequences of one-character strings, so that toLowerCase and *)
(* includes are computed rather than assumed.  Of PacketInfo only the      *)
(* three fields the component reads in its logic (protocol, source,        *)
(* destination) are kept; the others are only rendered.                    *)
(***************************************************************************)
EXTENDS Integers, Sequences, FiniteSets, TLC

\* ------------------------------------------------------------------ bounds
\* Length of the retained window.  The component keeps 1000 records
\* (`.slice(0, 1000)`); the model keeps CAPACITY and every statement about
\* "1000" is checked as a statement about CAPACITY.
CAPACITY == 2

\* Packets the capture loop emits in one behaviour.
MaxPackets == 3

\* Commands issued by the component and not yet settled.
MaxInFlight == 2

\* capture-status events emitted and not yet delivered.
MaxStatusQ == 2

\* ------------------------------------------------------------ value spaces
Min(a, b) == IF a < b THEN a ELSE b

Empty == << >>

\* The records of the capture loop.  `timestamp` is the capture time; the
\* loop stamps its frames 1, 2, 3, ... so every record is distinguishable.
\* Frames alternate between a TCP and a udp flow.
TCP(ts) == [timestamp |-> ts, protocol |-> <<"T", "C", "P">>,
            source |-> <<"1", "0">>, destination |-> <<"1", "9">>]

Udp(ts) == [timestamp |-> ts, protocol |-> <<"u", "d", "p">>,
            source |-> <<"1", "9">>, destination |-> <<"1", "0">>]

\* A record of an IPv6 flow, whose addresses contain letters.
V6(ts) == [timestamp |-> ts, protocol |-> <<"U", "D", "P">>,
           source |-> <<"f", "E">>, destination |-> <<"F", "e">>]

Frame(ts) == IF ts % 2 = 1 THEN TCP(ts) ELSE Udp(ts)

\* Names the host reports for its interfaces.
HostInterfaces == <<"eth0">>

\* What an operator may type into a filter box.
FilterInputs == {Empty, <<"t", "c">>}

\* Filter texts and rows for the checks of the filter alone.
FilterTexts == {Empty, <<"T", "c">>, <<"1">>, <<"f", "E">>}

SampleRecords == {TCP(1), Udp(2), V6(3)}

\* Rows of the table in the checks of the filter alone.
MaxRows == 2

RECURSIVE SeqsUpTo(_, _)
SeqsUpTo(S, n) ==
    IF n = 0 THEN {<< >>}
    ELSE LET shorter == SeqsUpTo(S, n - 1)
         IN  shorter \cup {Append(q, x) : q \in shorter, x \in S}

NoStatus == [success |-> TRUE, message |-> "null"]

StatusOf(ok, msg) == [success |-> ok, message |-> msg]

OpenErrors == {"PermissionDenied"}

\* ------------------------------------------------------------------- state
VARIABLES
    interfaces,         \* useState<InterfaceInfo[]>([])   (names only)
    selectedInterface,  \* useState<string>("")
    isCapturing,        \* useState(false)
    status,             \* useState<CaptureStatus | null>(null)
    packets,            \* useState<PacketInfo[]>([])
    filters,            \* useState({protocol, source, destination})
    listCall,           \* the list_interfaces promise: "pending" | "settled"
    inflight,           \* start_capture / stop_capture calls not yet settled
    session,            \* back end: "Idle" | "Capturing" | "Failed"
    statusQ,            \* capture-status events emitted, not yet delivered
    packetQ,            \* packet-captured events emitted, not yet delivered
    emitted,            \* number of packets emitted so far (bounds the run)
    delivered,          \* history: records delivered since the list was reset
    lastOp,             \* history: the handler or step that ran last
    lastStatus,         \* history: the status of the latest session transition
    snapshot            \* the `packets` value the latest render read

vars == <<interfaces, selectedInterface, isCapturing, status, packets, filters,
          listCall, inflight, session, statusQ, packetQ, emitted, delivered,
          lastOp, lastStatus, snapshot>>

ui == <<interfaces, selectedInterface, isCapturing, status, packets, filters>>

backend == <<session, statusQ, packetQ, emitted>>

Op(name, info) == [name |-> name, info |-> info]

Init ==
    /\ interfaces = << >>
    /\ selectedInterface = ""
    /\ isCapturing = FALSE
    /\ status = NoStatus
    /\ packets = << >>
    /\ filters = [protocol |-> Empty, source |-> Empty, destination |-> Empty]
    /\ listCall = "pending"
    /\ inflight = << >>
    /\ session = "Idle"
    /\ statusQ = << >>
    /\ packetQ = << >>
    /\ emitted = 0
    /\ delivered = << >>
    /\ lastOp = Op("init", "")
    /\ lastStatus = NoStatus
    /\ snapshot = packets

\* --------------------------------------------------------- pure functions
\* String.prototype.toLowerCase on the characters the model uses.
LowerChar(c) ==
    CASE c = "T" -> "t"
      [] c = "C" -> "c"
      [] c = "P" -> "p"
      [] c = "U" -> "u"
      [] c = "D" -> "d"
      [] c = "F" -> "f"
      [] c = "E" -> "e"
      [] OTHER -> c

toLowerCase(s) == [i \in 1..Len(s) |-> LowerChar(s[i])]

\* String.prototype.includes: scan the start positions left to right.
RECURSIVE includesFrom(_, _, _)
includesFrom(s, sub, i) ==
    IF i + Len(sub) - 1 > Len(s) THEN FALSE
    ELSE IF SubSeq(s, i, i + Len(sub) - 1) = sub THEN TRUE
    ELSE includesFrom(s, sub, i + 1)

includes(s, sub) == includesFrom(s, sub, 1)

\* `!str` in JavaScript: the empty string is falsy.
Not(str) == Len(str) = 0

\* Array.prototype.slice(0, n)
slice0(list, n) == SubSeq(list, 1, Min(n, Len(list)))

\* filterPredicate with the filter text left in the case it was typed in.
filterPredicateRawText(packet, f) ==
    /\ (Not(f.protocol) \/ includes(toLowerCase(packet.protocol), f.protocol))
    /\ (Not(f.source) \/ includes(packet.source, f.source))
    /\ (Not(f.destination) \/ includes(packet.destination, f.destination))

\* filterPredicate with `filters.x &&` written for `!filters.x ||`.
filterPredicateNeedsText(packet, f) ==
    /\ (~Not(f.protocol)
        /\ includes(toLowerCase(packet.protocol), toLowerCase(f.protocol)))
    /\ (~Not(f.source) /\ includes(packet.source, f.source))
    /\ (~Not(f.destination) /\ includes(packet.destination, f.destination))

\* The callback given to packets.filter.
filterPredicate(packet, f) ==
    /\ (Not(f.protocol)
        \/ includes(toLowerCase(packet.protocol), toLowerCase(f.protocol)))
    /\ (Not(f.source) \/ includes(packet.source, f.source))
    /\ (Not(f.destination) \/ includes(packet.destination, f.destination))

\* Array.prototype.filter keeps the accepted elements in their order.
applyFilter(list, f) == SelectSeq(list, LAMBDA packet : filterPredicate(packet, f))

\* const filteredPackets = packets.filter(...), recomputed on every render.
filteredPackets == applyFilter(packets, filters)

\* pushPacket with the new record put behind the retained ones.
pushPacketKeepsOldest(payload, prev) == slice0(prev \o <<payload>>, CAPACITY)

\* pushPacket without the slice.
pushPacketUnbounded(payload, prev) == <<payload>> \o prev

\* The functional update of the packet-captured listener.
pushPacket(payload, prev) == slice0(<<payload>> \o prev, CAPACITY)

\* `selectedInterface || null`
orNull(name) == IF name = "" THEN "null" ELSE name

RemoveAt(s, i) == SubSeq(s, 1, i - 1) \o SubSeq(s, i + 1, Len(s))

\* `since` (history) is the number of frames emitted before the session that
\* the call began; 0 until the call begins one.
Call(cmd, arg) ==
    [cmd |-> cmd, interfaceName |-> arg, phase |-> "sent", error |-> "none",
     since |-> 0]

Settle(i, phase, error) ==
    [inflight EXCEPT ![i] = [@ EXCEPT !.phase = phase, !.error = error]]

Range(s) == {s[i] : i \in 1..Len(s)}

\* ----------------------------------------------- front end: useEffect(...)
\* invoke("list_interfaces").then(setInterfaces)
listInterfacesResolved ==
    /\ listCall = "pending"
    /\ listCall' = "settled"
    /\ interfaces' = HostInterfaces
    /\ lastOp' = Op("listInterfacesResolved", "")
    /\ UNCHANGED <<selectedInterface, isCapturing, status, packets, filters,
                   inflight, session, statusQ, packetQ, emitted, delivered>>
    /\ UNCHANGED <<lastStatus, snapshot>>

\* invoke("list_interfaces").catch(console.error)
listInterfacesRejected ==
    /\ listCall = "pending"
    /\ listCall' = "settled"
    /\ lastOp' = Op("listInterfacesRejected", "")
    /\ UNCHANGED <<ui, inflight, session, statusQ, packetQ, emitted, delivered>>
    /\ UNCHANGED <<lastStatus, snapshot>>

\* listen("packet-captured", ...): one delivered event.
onPacketCaptured ==
    /\ packetQ # << >>
    /\ packets' = pushPacket(Head(packetQ), packets)
    /\ packetQ' = Tail(packetQ)
    /\ delivered' = Append(delivered, Head(packetQ))
    /\ lastOp' = Op("onPacketCaptured", "")
    /\ UNCHANGED <<interfaces, selectedInterface, isCapturing, status, filters,
                   listCall, inflight, session, statusQ, emitted>>
    /\ UNCHANGED <<lastStatus, snapshot>>

\* onCaptureStatus with setIsCapturing(event.payload.success).
onCaptureStatusFollowsSuccess ==
    /\ statusQ # << >>
    /\ status' = Head(statusQ)
    /\ isCapturing' = Head(statusQ).success
    /\ statusQ' = Tail(statusQ)
    /\ lastOp' = Op("onCaptureStatus", Head(statusQ).message)
    /\ UNCHANGED <<interfaces, selectedInterface, packets, filters, listCall,
                   inflight, session, packetQ, emitted, delivered>>
    /\ UNCHANGED <<lastStatus, snapshot>>

\* onCaptureStatus with setStatus moved inside the `if`.
onCaptureStatusFailuresOnly ==
    /\ statusQ # << >>
    /\ status' = IF ~Head(statusQ).success THEN Head(statusQ) ELSE status
    /\ isCapturing' = IF ~Head(statusQ).success THEN FALSE ELSE isCapturing
    /\ statusQ' = Tail(statusQ)
    /\ lastOp' = Op("onCaptureStatus", Head(statusQ).message)
    /\ UNCHANGED <<interfaces, selectedInterface, packets, filters, listCall,
                   inflight, session, packetQ, emitted, delivered>>
    /\ UNCHANGED <<lastStatus, snapshot>>

\* listen("capture-status", ...): one delivered event.
onCaptureStatus ==
    /\ statusQ # << >>
    /\ status' = Head(statusQ)
    /\ isCapturing' = IF ~Head(statusQ).success THEN FALSE ELSE isCapturing
    /\ statusQ' = Tail(statusQ)
    /\ lastOp' = Op("onCaptureStatus", Head(statusQ).message)
    /\ UNCHANGED <<interfaces, selectedInterface, packets, filters, listCall,
                   inflight, session, packetQ, emitted, delivered>>
    /\ UNCHANGED <<lastStatus, snapshot>>

\* ------------------------------------------------ front end: startCapture
\* The button runs startCapture when the rendered isCapturing is false; the
\* handler runs up to the await.
startCapture ==
    /\ ~isCapturing
    /\ Len(inflight) < MaxInFlight
    /\ inflight' = Append(inflight, Call("start_capture", orNull(selectedInterface)))
    /\ lastOp' = Op("startCapture", "")
    /\ UNCHANGED <<ui, listCall, session, statusQ, packetQ, emitted, delivered>>
    /\ UNCHANGED <<lastStatus, snapshot>>

\* startCaptureResolved without setPackets([]).
startCaptureResolvedKeepsList(i) ==
    /\ inflight[i].cmd = "start_capture"
    /\ inflight[i].phase = "ok"
    /\ isCapturing' = TRUE
    /\ inflight' = RemoveAt(inflight, i)
    /\ lastOp' = Op("startCaptureResolved", inflight[i].interfaceName)
    /\ UNCHANGED <<interfaces, selectedInterface, status, packets, filters,
                   listCall, session, statusQ, packetQ, emitted, delivered>>
    /\ UNCHANGED <<lastStatus, snapshot>>

\* The await returned: setIsCapturing(true); setPackets([]).
startCaptureResolved(i) ==
    /\ inflight[i].cmd = "start_capture"
    /\ inflight[i].phase = "ok"
    /\ isCapturing' = TRUE
    /\ packets' = << >>
    /\ delivered' = << >>
    /\ inflight' = RemoveAt(inflight, i)
    /\ lastOp' = Op("startCaptureResolved", inflight[i].interfaceName)
    /\ UNCHANGED <<interfaces, selectedInterface, status, filters, listCall,
                   session, statusQ, packetQ, emitted>>
    /\ UNCHANGED <<lastStatus, snapshot>>

\* startCaptureRejected with setPackets([]) moved after the try block.
startCaptureRejectedClears(i) ==
    /\ inflight[i].cmd = "start_capture"
    /\ inflight[i].phase = "err"
    /\ packets' = << >>
    /\ delivered' = << >>
    /\ inflight' = RemoveAt(inflight, i)
    /\ lastOp' = Op("startCaptureRejected", inflight[i].error)
    /\ UNCHANGED <<interfaces, selectedInterface, isCapturing, status, filters,
                   listCall, session, statusQ, packetQ, emitted>>
    /\ UNCHANGED <<lastStatus, snapshot>>

\* startCaptureRejected with setIsCapturing(false) in the catch block.
startCaptureRejectedResetsFlag(i) ==
    /\ inflight[i].cmd = "start_capture"
    /\ inflight[i].phase = "err"
    /\ isCapturing' = FALSE
    /\ inflight' = RemoveAt(inflight, i)
    /\ lastOp' = Op("startCaptureRejected", inflight[i].error)
    /\ UNCHANGED <<interfaces, selectedInterface, status, packets, filters,
                   listCall, session, statusQ, packetQ, emitted, delivered>>
    /\ UNCHANGED <<lastStatus, snapshot>>

\* The await threw: console.error only.
startCaptureRejected(i) ==
    /\ inflight[i].cmd = "start_capture"
    /\ inflight[i].phase = "err"
    /\ inflight' = RemoveAt(inflight, i)
    /\ lastOp' = Op("startCaptureRejected", inflight[i].error)
    /\ UNCHANGED <<ui, listCall, session, statusQ, packetQ, emitted, delivered>>
    /\ UNCHANGED <<lastStatus, snapshot>>

\* ------------------------------------------------- front end: stopCapture
stopCapture ==
    /\ isCapturing
    /\ Len(inflight) < MaxInFlight
    /\ inflight' = Append(inflight, Call("stop_capture", "null"))
    /\ lastOp' = Op("stopCapture", "")
    /\ UNCHANGED <<ui, listCall, session, statusQ, packetQ, emitted, delivered>>
    /\ UNCHANGED <<lastStatus, snapshot>>

\* stopCaptureResolved without setIsCapturing(false).
stopCaptureResolvedKeepsFlag(i) ==
    /\ inflight[i].cmd = "stop_capture"
    /\ inflight[i].phase = "ok"
    /\ inflight' = RemoveAt(inflight, i)
    /\ lastOp' = Op("stopCaptureResolved", "")
    /\ UNCHANGED <<ui, listCall, session, statusQ, packetQ, emitted, delivered>>
    /\ UNCHANGED <<lastStatus, snapshot>>

\* stopCaptureResolved with setPackets([]) added.
stopCaptureResolvedClears(i) ==
    /\ inflight[i].cmd = "stop_capture"
    /\ inflight[i].phase = "ok"
    /\ isCapturing' = FALSE
    /\ packets' = << >>
    /\ delivered' = << >>
    /\ inflight' = RemoveAt(inflight, i)
    /\ lastOp' = Op("stopCaptureResolved", "")
    /\ UNCHANGED <<interfaces, selectedInterface, status, filters, listCall,
                   session, statusQ, packetQ, emitted>>
    /\ UNCHANGED <<lastStatus, snapshot>>

\* The await returned: setIsCapturing(false).
stopCaptureResolved(i) ==
    /\ inflight[i].cmd = "stop_capture"
    /\ inflight[i].phase = "ok"
    /\ isCapturing' = FALSE
    /\ inflight' = RemoveAt(inflight, i)
    /\ lastOp' = Op("stopCaptureResolved", "")
    /\ UNCHANGED <<interfaces, selectedInterface, status, packets, filters,
                   listCall, session, statusQ, packetQ, emitted, delivered>>
    /\ UNCHANGED <<lastStatus, snapshot>>

\* stopCaptureRejected with setIsCapturing(false) moved after the try block.
stopCaptureRejectedResetsFlag(i) ==
    /\ inflight[i].cmd = "stop_capture"
    /\ inflight[i].phase = "err"
    /\ isCapturing' = FALSE
    /\ inflight' = RemoveAt(inflight, i)
    /\ lastOp' = Op("stopCaptureRejected", inflight[i].error)
    /\ UNCHANGED <<interfaces, selectedInterface, status, packets, filters,
                   listCall, session, statusQ, packetQ, emitted, delivered>>
    /\ UNCHANGED <<lastStatus, snapshot>>

\* The await threw: console.error only.
stopCaptureRejected(i) ==
    /\ inflight[i].cmd = "stop_capture"
    /\ inflight[i].phase = "err"
    /\ inflight' = RemoveAt(inflight, i)
    /\ lastOp' = Op("stopCaptureRejected", inflight[i].error)
    /\ UNCHANGED <<ui, listCall, session, statusQ, packetQ, emitted, delivered>>
    /\ UNCHANGED <<lastStatus, snapshot>>

\* ---------------------------------------------------- front end: controls
\* <select ... onChange={setSelectedInterface} disabled={isCapturing}>
selectInterface(name) ==
    /\ ~isCapturing
    /\ name \in {""} \cup Range(interfaces)
    /\ name # selectedInterface
    /\ selectedInterface' = name
    /\ lastOp' = Op("selectInterface", name)
    /\ UNCHANGED <<interfaces, isCapturing, status, packets, filters, listCall,
                   inflight, session, statusQ, packetQ, emitted, delivered>>
    /\ UNCHANGED <<lastStatus, snapshot>>

\* The three filter inputs: setFilters((prev) => ({...prev, <field>: value})).
setFilter(field, value) ==
    /\ filters[field] # value
    /\ filters' = [filters EXCEPT ![field] = value]
    /\ lastOp' = Op("setFilter", field)
    /\ UNCHANGED <<interfaces, selectedInterface, isCapturing, status, packets,
                   listCall, inflight, session, statusQ, packetQ, emitted,
                   delivered>>
    /\ UNCHANGED <<lastStatus, snapshot>>

setProtocolFilter(value) == setFilter("protocol", value)

setSourceFilter(value) == setFilter("source", value)

setDestinationFilter(value) == setFilter("destination", value)

\* ------------------------------------------------------ front end: render
\* A render that reads the first row now and the other rows from the list
\* it read before.
renderTorn ==
    /\ snapshot # packets
    /\ snapshot' = IF packets # << >> /\ snapshot # << >>
                   THEN <<Head(packets)>> \o Tail(snapshot)
                   ELSE packets
    /\ lastOp' = Op("render", "")
    /\ UNCHANGED <<ui, listCall, inflight, session, statusQ, packetQ, emitted,
                   delivered, lastStatus>>

\* The component function runs again and reads the `packets` state (the
\* list filteredPackets is computed from).  It may run any time after the
\* state changed.
render ==
    /\ snapshot # packets
    /\ snapshot' = packets
    /\ lastOp' = Op("render", "")
    /\ UNCHANGED <<ui, listCall, inflight, session, statusQ, packetQ, emitted,
                   delivered, lastStatus>>

\* ---------------------------------------------------------------- back end
\* start_capture while Capturing: AlreadyCapturing, no state change, no event.
BackendStartAlreadyCapturing(i) ==
    /\ inflight[i].cmd = "start_capture"
    /\ inflight[i].phase = "sent"
    /\ session = "Capturing"
    /\ inflight' = Settle(i, "err", "AlreadyCapturing")
    /\ lastOp' = Op("BackendStart", "AlreadyCapturing")
    /\ UNCHANGED <<ui, listCall, session, statusQ, packetQ, emitted, delivered>>
    /\ UNCHANGED <<lastStatus, snapshot>>

\* start_capture(None) on a host without a default interface.
BackendStartNoDefault(i) ==
    /\ inflight[i].cmd = "start_capture"
    /\ inflight[i].phase = "sent"
    /\ session # "Capturing"
    /\ inflight[i].interfaceName = "null"
    /\ inflight' = Settle(i, "err", "NoDefaultInterface")
    /\ lastOp' = Op("BackendStart", "NoDefaultInterface")
    /\ UNCHANGED <<ui, listCall, session, statusQ, packetQ, emitted, delivered>>
    /\ UNCHANGED <<lastStatus, snapshot>>

\* start_capture: the capture source cannot be opened.
BackendStartOpenFailed(i, e) ==
    /\ inflight[i].cmd = "start_capture"
    /\ inflight[i].phase = "sent"
    /\ session # "Capturing"
    /\ Len(statusQ) < MaxStatusQ
    /\ session' = "Failed"
    /\ statusQ' = Append(statusQ, StatusOf(FALSE, e))
    /\ inflight' = Settle(i, "err", e)
    /\ lastOp' = Op("BackendStart", e)
    /\ UNCHANGED <<ui, listCall, packetQ, emitted, delivered>>
    /\ lastStatus' = StatusOf(FALSE, e)
    /\ UNCHANGED snapshot

\* start_capture: the capture source opens.
BackendStartOk(i) ==
    /\ inflight[i].cmd = "start_capture"
    /\ inflight[i].phase = "sent"
    /\ session # "Capturing"
    /\ Len(statusQ) < MaxStatusQ
    /\ session' = "Capturing"
    /\ statusQ' = Append(statusQ, StatusOf(TRUE, "started"))
    /\ inflight' = [Settle(i, "ok", "none") EXCEPT ![i].since = emitted]
    /\ lastOp' = Op("BackendStart", "ok")
    /\ UNCHANGED <<ui, listCall, packetQ, emitted, delivered>>
    /\ lastStatus' = StatusOf(TRUE, "started")
    /\ UNCHANGED snapshot

\* stop_capture while Capturing.
BackendStopOk(i) ==
    /\ inflight[i].cmd = "stop_capture"
    /\ inflight[i].phase = "sent"
    /\ session = "Capturing"
    /\ Len(statusQ) < MaxStatusQ
    /\ session' = "Idle"
    /\ statusQ' = Append(statusQ, StatusOf(TRUE, "stopped"))
    /\ inflight' = Settle(i, "ok", "none")
    /\ lastOp' = Op("BackendStop", "ok")
    /\ UNCHANGED <<ui, listCall, packetQ, emitted, delivered>>
    /\ lastStatus' = StatusOf(TRUE, "stopped")
    /\ UNCHANGED snapshot

\* stop_capture while not Capturing: NotCapturing, no state change, no event.
BackendStopNotCapturing(i) ==
    /\ inflight[i].cmd = "stop_capture"
    /\ inflight[i].phase = "sent"
    /\ session # "Capturing"
    /\ inflight' = Settle(i, "err", "NotCapturing")
    /\ lastOp' = Op("BackendStop", "NotCapturing")
    /\ UNCHANGED <<ui, listCall, session, statusQ, packetQ, emitted, delivered>>
    /\ UNCHANGED <<lastStatus, snapshot>>

\* The capture loop decodes one frame and emits packet-captured.
BackendEmitPacket ==
    /\ session = "Capturing"
    /\ emitted < MaxPackets
    /\ packetQ' = Append(packetQ, Frame(emitted + 1))
    /\ emitted' = emitted + 1
    /\ lastOp' = Op("BackendEmitPacket", "")
    /\ UNCHANGED <<ui, listCall, inflight, session, statusQ, delivered>>
    /\ UNCHANGED <<lastStatus, snapshot>>

\* A fatal error of the capture source while Capturing.
BackendSourceFailure ==
    /\ session = "Capturing"
    /\ Len(statusQ) < MaxStatusQ
    /\ session' = "Failed"
    /\ statusQ' = Append(statusQ, StatusOf(FALSE, "CaptureSourceFailure"))
    /\ lastOp' = Op("BackendSourceFailure", "")
    /\ UNCHANGED <<ui, listCall, inflight, packetQ, emitted, delivered>>
    /\ lastStatus' = StatusOf(FALSE, "CaptureSourceFailure")
    /\ UNCHANGED snapshot

\* ------------------------------------------------------------ specification
Slots == 1..MaxInFlight

FrontEnd ==
    \/ listInterfacesResolved
    \/ listInterfacesRejected
    \/ onPacketCaptured
    \/ onCaptureStatus
    \/ startCapture
    \/ \E i \in DOMAIN inflight : startCaptureResolved(i)
    \/ \E i \in DOMAIN inflight : startCaptureRejected(i)
    \/ stopCapture
    \/ \E i \in DOMAIN inflight : stopCaptureResolved(i)
    \/ \E i \in DOMAIN inflight : stopCaptureRejected(i)
    \/ \E name \in {""} \cup Range(HostInterfaces) : selectInterface(name)

BackEnd ==
    \/ \E i \in DOMAIN inflight : BackendStartAlreadyCapturing(i)
    \/ \E i \in DOMAIN inflight : BackendStartNoDefault(i)
    \/ \E i \in DOMAIN inflight, e \in OpenErrors : BackendStartOpenFailed(i, e)
    \/ \E i \in DOMAIN inflight : BackendStartOk(i)
    \/ \E i \in DOMAIN inflight : BackendStopOk(i)
    \/ \E i \in DOMAIN inflight : BackendStopNotCapturing(i)
    \/ BackendEmitPacket
    \/ BackendSourceFailure

Next == FrontEnd \/ BackEnd

Spec == Init /\ [][Next]_vars

\* The capture pipeline together with the filter boxes: packet and status
\* events, start/stop calls and their settling, and filter edits.
Capture ==
    \/ onPacketCaptured
    \/ onCaptureStatus
    \/ startCapture
    \/ \E i \in DOMAIN inflight : startCaptureResolved(i)
    \/ \E i \in DOMAIN inflight : startCaptureRejected(i)
    \/ stopCapture
    \/ \E i \in DOMAIN inflight : stopCaptureResolved(i)
    \/ \E i \in DOMAIN inflight : stopCaptureRejected(i)

FilterEdits ==
    \/ \E value \in FilterInputs : setProtocolFilter(value)
    \/ \E value \in FilterInputs : setSourceFilter(value)
    \/ \E value \in FilterInputs : setDestinationFilter(value)

NextAll == Capture \/ FilterEdits \/ BackEnd

SpecAll == Init /\ [][NextAll]_vars

\* The capture pipeline seen by the rendering consumer.
NextView == Capture \/ render \/ BackEnd

SpecView == Init /\ [][NextView]_vars

\* The filter alone: any retained list, any texts typed into the boxes.
InitFilter ==
    /\ interfaces = << >>
    /\ selectedInterface = ""
    /\ isCapturing = FALSE
    /\ status = NoStatus
    /\ packets \in SeqsUpTo(SampleRecords, MaxRows)
    /\ filters = [protocol |-> Empty, source |-> Empty, destination |-> Empty]
    /\ listCall = "pending"
    /\ inflight = << >>
    /\ session = "Idle"
    /\ statusQ = << >>
    /\ packetQ = << >>
    /\ emitted = 0
    /\ delivered = [i \in 1..Len(packets) |-> packets[Len(packets) + 1 - i]]
    /\ lastOp = Op("init", "")
    /\ lastStatus = NoStatus
    /\ snapshot = packets

NextFilter ==
    \/ \E value \in FilterTexts : setProtocolFilter(value)
    \/ \E value \in FilterTexts : setSourceFilter(value)
    \/ \E value \in FilterTexts : setDestinationFilter(value)

SpecFilter == InitFilter /\ [][NextFilter]_vars

\* ================================================================== claims
\* The last n elements of a delivery log, most recent first.
NewestFirst(log, n) ==
    [i \in 1..Min(n, Len(log)) |-> log[Len(log) + 1 - i]]

\* C1: after k packet-captured deliveries with no successful start in
\* between, the retained list is the min(k, CAPACITY) most recently
\* delivered records, most recent at index 0 (so a delivery to a full list
\* evicts exactly the oldest record).
C1_NewestFirstWindow == packets = NewestFirst(delivered, CAPACITY)

\* C1 witness: more than CAPACITY records were delivered, the list is full
\* and headed by the record delivered last.
C1_Witness ==
    /\ Len(delivered) > CAPACITY
    /\ Len(packets) = CAPACITY
    /\ packets[1] = delivered[Len(delivered)]
    /\ lastOp.name = "onPacketCaptured"

\* C2: in every reachable state the retained list holds at most CAPACITY
\* records.
C2_AtMostCapacity == Len(packets) <= CAPACITY

\* C2 witness: the list is full after an eviction, with a filter typed in
\* and the capture already stopped or failed.
C2_Witness ==
    /\ Len(packets) = CAPACITY
    /\ Len(delivered) > CAPACITY
    /\ filters.protocol # Empty
    /\ session # "Capturing"

\* Letters that differ only in case.
CasePairs ==
    {<<"T", "t">>, <<"C", "c">>, <<"P", "p">>, <<"U", "u">>, <<"D", "d">>,
     <<"F", "f">>, <<"E", "e">>}

SameLetter(a, b) == a = b \/ <<a, b>> \in CasePairs \/ <<b, a>> \in CasePairs

\* sub occurs in s at some offset, letter for letter.
ExactSubstring(sub, s) ==
    \E k \in 0..(Len(s) - Len(sub)) : \A j \in 1..Len(sub) : s[k + j] = sub[j]

\* sub occurs in s at some offset, up to the case of the letters.
CaselessSubstring(sub, s) ==
    \E k \in 0..(Len(s) - Len(sub)) :
        \A j \in 1..Len(sub) : SameLetter(s[k + j], sub[j])

\* The three sub-predicates of the filter specification.
Wanted(rec) ==
    /\ (filters.protocol = Empty \/ CaselessSubstring(filters.protocol, rec.protocol))
    /\ (filters.source = Empty \/ ExactSubstring(filters.source, rec.source))
    /\ (filters.destination = Empty
        \/ ExactSubstring(filters.destination, rec.destination))

WantedRows == {i \in 1..Len(packets) : Wanted(packets[i])}

\* The k-th wanted row, counting from the head of the list.
WantedRow(k) ==
    CHOOSE i \in WantedRows : Cardinality({j \in WantedRows : j <= i}) = k

\* C3: a record is in filteredPackets iff all three sub-predicates hold for
\* it (protocol: empty or case-insensitive substring; source, destination:
\* empty or exact substring), and the records shown keep the relative order
\* they have in the packet list.
C3_FilterIsConjunction ==
    /\ Len(filteredPackets) = Cardinality(WantedRows)
    /\ \A k \in 1..Len(filteredPackets) : filteredPackets[k] = packets[WantedRow(k)]

\* C3 witness: two rows, a protocol text in another case than the records'
\* and an address text; only the second row has both, and it alone is shown.
C3_Witness ==
    /\ Len(packets) = 2
    /\ filters.protocol = <<"T", "c">>
    /\ filters.destination = <<"1">>
    /\ filters.source = Empty
    /\ packets[1].protocol = <<"U", "D", "P">>
    /\ packets[2].protocol = <<"T", "C", "P">>
    /\ filteredPackets = <<packets[2]>>

AllEmpty ==
    filters = [protocol |-> Empty, source |-> Empty, destination |-> Empty]

\* C4: with all three filter fields empty, filteredPackets is the retained
\* list itself: same records, same order, same length.
C4_EmptyFilterIsIdentity == AllEmpty => filteredPackets = packets

\* C4 witness: the boxes were emptied again over a list of two rows.
C4_Witness ==
    /\ AllEmpty
    /\ lastOp.name = "setFilter"
    /\ Len(packets) = 2
    /\ filteredPackets = packets

\* C5: when start_capture has resolved and startCapture has run on, the
\* retained list is empty and isCapturing is true, whatever the list held
\* and whatever was delivered while the call was pending.
C5_StartClearsAndCaptures ==
    lastOp.name = "startCaptureResolved" => (packets = << >> /\ isCapturing)

\* C5 witness: a start on eth0 has just completed after records had been
\* emitted and delivered.
C5_Witness ==
    /\ lastOp = Op("startCaptureResolved", "eth0")
    /\ emitted > 0
    /\ packetQ = << >>
    /\ packets = << >>
    /\ isCapturing

\* Stop is over: the session is Idle, every stop_capture call has settled
\* and every "stopped" status has been delivered.
StopFinished ==
    /\ session = "Idle"
    /\ \A i \in DOMAIN inflight : inflight[i].cmd # "stop_capture"
    /\ \A k \in DOMAIN statusQ : statusQ[k].message # "stopped"

\* C6 as stated: once stop is over, no packet-captured delivery changes the
\* retained list until the next successful start.
C6_NoRecordAfterStop ==
    [][(StopFinished /\ onPacketCaptured) => packets' = packets]_vars

\* C6 as amended: when stop_capture has resolved isCapturing is false; while
\* the session is not Capturing no packet-captured event is emitted; a
\* record emitted earlier is still prepended when it is delivered, whatever
\* isCapturing is.
C6_StopEndsEmissionNotDelivery ==
    /\ [](lastOp.name = "stopCaptureResolved" => ~isCapturing)
    /\ [][session # "Capturing" => Len(packetQ') <= Len(packetQ)]_vars
    /\ [][onPacketCaptured =>
            (Len(packets') > 0 /\ packets'[1] = Head(packetQ))]_vars

\* C6 witness: a record emitted before the stop was delivered, and kept,
\* after the stop was over.
C6_Witness ==
    /\ lastOp.name = "onPacketCaptured"
    /\ StopFinished
    /\ ~isCapturing
    /\ inflight = << >>
    /\ Len(packets) > 0

\* The ways start_capture fails from Idle or Failed.
StartFailures == OpenErrors \cup {"NoDefaultInterface"}

\* C7: a start that fails (the capture source cannot be opened, or no
\* interface was named and the host has no default) leaves the session not
\* Capturing, and its rejection leaves the retained list and isCapturing
\* exactly as they were: the list is not cleared, the flag is not set.
C7_FailedStartChangesNothing ==
    /\ [][\A i \in DOMAIN inflight :
            (startCaptureRejected(i) /\ inflight[i].error \in StartFailures)
                => (packets' = packets /\ isCapturing' = isCapturing)]_vars
    /\ [][\A i \in DOMAIN inflight :
            (BackendStartNoDefault(i)
             \/ \E e \in OpenErrors : BackendStartOpenFailed(i, e))
                => (session' # "Capturing" /\ packets' = packets
                    /\ isCapturing' = isCapturing)]_vars

\* C7 witness: a start was rejected with an open failure while records were
\* retained; they are still there and isCapturing is false.
C7_Witness ==
    /\ lastOp = Op("startCaptureRejected", "PermissionDenied")
    /\ Len(packets) > 0
    /\ ~isCapturing
    /\ session = "Failed"

\* C8: whenever no start_capture / stop_capture call is in flight and every
\* emitted capture-status event has been delivered, isCapturing is true iff
\* the session is Capturing.
C8_NeverDiverge ==
    (inflight = << >> /\ statusQ = << >>)
        => (isCapturing <=> session = "Capturing")

\* C9: a start issued while the session is Capturing is rejected with
\* AlreadyCapturing and changes nothing: the session stays Capturing, no
\* capture-status event is emitted, and the rejection leaves isCapturing,
\* the retained list and the displayed status as they were.
C9_SecondStartIsNoOp ==
    /\ [][\A i \in DOMAIN inflight :
            (inflight[i].cmd = "start_capture" /\ inflight[i].phase = "sent"
             /\ session = "Capturing" /\ Len(inflight') = Len(inflight)
             /\ inflight'[i].phase # "sent")
                => (inflight'[i].error = "AlreadyCapturing"
                    /\ session' = "Capturing" /\ statusQ' = statusQ
                    /\ packets' = packets /\ isCapturing' = isCapturing)]_vars
    /\ [][\A i \in DOMAIN inflight :
            (startCaptureRejected(i) /\ inflight[i].error = "AlreadyCapturing")
                => (packets' = packets /\ isCapturing' = isCapturing
                    /\ status' = status /\ session' = session
                    /\ statusQ' = statusQ)]_vars

\* C9 witness: a second start was rejected with AlreadyCapturing; the
\* session is Capturing, isCapturing is true and records are retained.
C9_Witness ==
    /\ lastOp = Op("startCaptureRejected", "AlreadyCapturing")
    /\ session = "Capturing"
    /\ isCapturing
    /\ Len(packets) > 0

\* C10: a stop issued while the session is Idle fails with NotCapturing and
\* changes nothing: session, isCapturing, the displayed status and the
\* retained list are as before and no capture-status event is emitted.
C10_StopWhileIdleIsNoOp ==
    /\ [][\A i \in DOMAIN inflight :
            (inflight[i].cmd = "stop_capture" /\ inflight[i].phase = "sent"
             /\ session = "Idle" /\ Len(inflight') = Len(inflight)
             /\ inflight'[i].phase # "sent")
                => (inflight'[i].error = "NotCapturing"
                    /\ session' = "Idle" /\ statusQ' = statusQ
                    /\ packets' = packets /\ isCapturing' = isCapturing
                    /\ status' = status)]_vars
    /\ [][\A i \in DOMAIN inflight :
            (stopCaptureRejected(i) /\ inflight[i].error = "NotCapturing")
                => (packets' = packets /\ isCapturing' = isCapturing
                    /\ status' = status /\ session' = session
                    /\ statusQ' = statusQ)]_vars

\* C10 witness: a stop was rejected with NotCapturing while the session was
\* Idle and records were retained.
C10_Witness ==
    /\ lastOp = Op("stopCaptureRejected", "NotCapturing")
    /\ session = "Idle"
    /\ Len(packets) > 0

SourceFailure == StatusOf(FALSE, "CaptureSourceFailure")

\* C11: a fatal capture-source failure while Capturing makes the session
\* Failed and emits one failure status with no call involved; when a failure
\* status is delivered isCapturing becomes false and the displayed status is
\* that failure; the retained list is untouched by both steps; the delivery
\* of a success status leaves isCapturing as it was.
C11_SourceFailureStopsTheFlag ==
    /\ [][BackendSourceFailure =>
            (session' = "Failed" /\ statusQ' = Append(statusQ, SourceFailure)
             /\ inflight' = inflight /\ packets' = packets)]_vars
    /\ [][onCaptureStatus =>
            /\ status' = Head(statusQ)
            /\ packets' = packets
            /\ (~Head(statusQ).success => ~isCapturing')
            /\ (Head(statusQ).success => isCapturing' = isCapturing)]_vars

\* C11 witness: the failure status of a source failure has just been
\* delivered: the flag is down, the status shows the failure, records are
\* still retained.
C11_Witness ==
    /\ lastOp = Op("onCaptureStatus", "CaptureSourceFailure")
    /\ session = "Failed"
    /\ ~isCapturing
    /\ status = SourceFailure
    /\ Len(packets) > 0

\* The status of the latest transition the front end can know of.
LatestKnown == IF statusQ = << >> THEN status ELSE statusQ[Len(statusQ)]

\* C12: capture-status events arrive in transition order: the newest pending
\* event, or the displayed status once all are delivered, is the status of
\* the most recent transition; records enter the retained list in capture
\* order, so their capture times decrease from the head of the list.
C12_StatusInTransitionOrder ==
    /\ LatestKnown = lastStatus
    /\ \A k \in 1..(Len(packets) - 1) :
           packets[k].timestamp > packets[k + 1].timestamp

\* C12 witness: two transitions (stop, then a failed start) were delivered
\* in order; the displayed status is the later one.
C12_Witness ==
    /\ statusQ = << >>
    /\ lastOp = Op("onCaptureStatus", "PermissionDenied")
    /\ status = StatusOf(FALSE, "PermissionDenied")
    /\ session = "Failed"
    /\ Len(packets) = CAPACITY

\* C13: the list a render reads is the retained list as it stood after a
\* whole number of pushes: at most CAPACITY records, each a complete record
\* the capture loop emitted, and consecutive deliveries newest first (never
\* rows of two different list states).
C13_SnapshotIsWholeState ==
    /\ Len(snapshot) <= CAPACITY
    /\ \A k \in DOMAIN snapshot :
           /\ snapshot[k].timestamp \in 1..emitted
           /\ snapshot[k] = Frame(snapshot[k].timestamp)
    /\ \A k \in 1..(Len(snapshot) - 1) :
           snapshot[k].timestamp = snapshot[k + 1].timestamp + 1

\* C13 witness: a render read a full list while a further packet-captured
\* event was waiting to be delivered.
C13_Witness ==
    /\ lastOp.name = "render"
    /\ Len(snapshot) = CAPACITY
    /\ packetQ # << >>
    /\ session = "Capturing"

\* C14: when list_interfaces fails the interface list stays empty and the
\* displayed status reports the failure.
C14_EnumerationFailureIsShown ==
    lastOp.name = "listInterfacesRejected"
        => (interfaces = << >> /\ status # NoStatus /\ ~status.success)

\* The list after a delivery: the new record, then the retained ones
\* without the oldest if the list was full.
AfterEviction(rec) ==
    <<rec>> \o (IF Len(packets) < CAPACITY THEN packets
                ELSE SubSeq(packets, 1, CAPACITY - 1))

\* C15: the retained list changes only by a packet-captured delivery (the
\* new record in front, the others unchanged and in place, the oldest
\* evicted when the list was full) or by the clear of a successful start;
\* every successful start clears it; stopCapture, a failed startCapture,
\* status deliveries and filter edits leave it as it is.
C15_OnlyEvictionAndClear ==
    /\ [][packets' # packets =>
            \/ onPacketCaptured /\ packets' = AfterEviction(Head(packetQ))
            \/ (\E i \in DOMAIN inflight : startCaptureResolved(i))
               /\ packets' = << >>]_vars
    /\ [][(\E i \in DOMAIN inflight : startCaptureResolved(i))
            => packets' = << >>]_vars
    /\ [][(\/ stopCapture
           \/ \E i \in DOMAIN inflight : stopCaptureResolved(i)
           \/ \E i \in DOMAIN inflight : stopCaptureRejected(i)
           \/ \E i \in DOMAIN inflight : startCaptureRejected(i)
           \/ onCaptureStatus
           \/ FilterEdits) => packets' = packets]_vars

\* C15 witness: a stop has completed over a full list that had evicted a
\* record, with a filter typed in; the list is still full.
C15_Witness ==
    /\ lastOp.name = "stopCaptureResolved"
    /\ Len(packets) = CAPACITY
    /\ Len(delivered) > CAPACITY
    /\ filters.source # Empty

\* C16: the clear of a successful start removes no record of the session
\* that this start began (records captured after the session began).
C16_ClearLosesNothing ==
    [][\A i \in DOMAIN inflight :
          startCaptureResolved(i)
              => \A k \in DOMAIN packets :
                     packets[k].timestamp <= inflight[i].since]_vars

StartCalls == {i \in DOMAIN inflight : inflight[i].cmd = "start_capture"}

\* C17: at most one start_capture call is outstanding at a time, and none
\* is issued while isCapturing is true.
C17_SingleStartOutstanding ==
    /\ Cardinality(StartCalls) <= 1
    /\ (lastOp.name = "startCapture" => ~isCapturing)

\* C18: once a start has completed and isCapturing has become true, the
\* selected interface is the interface name that was passed to that
\* start_capture call.
C18_SelectionIsCapturedInterface ==
    lastOp.name = "startCaptureResolved"
        => (isCapturing /\ orNull(selectedInterface) = lastOp.info)

=============================================================================
